---- MODULE Spec2Model ----
(***************************************************************************)
(* A model of the compgraph library: the stream operators Map, Reduce,     *)
(* Sort and Join of compgraph/operations.py and the Graph builder and      *)
(* executor of compgraph/graph.py.                                         *)
(*                                                                         *)
(* A record (TRow, a Python dict) is a function from field names to        *)
(* values.  A stream is a finite sequence of records.  An Optional value   *)
(* is a sequence of length 0 (None) or 1.                                  *)
(***************************************************************************)
EXTENDS Integers, Sequences, FiniteSets, TLC

VARIABLES mp, rd, srt, jn, heap, graphs, built, run

vars == <<mp, rd, srt, jn, heap, graphs, built, run>>

(***************************************************************************)
(* Bounds of the model.                                                    *)
(***************************************************************************)
MaxLen == 2        \* longest input stream of each side of a Join
MaxRows == 3       \* longest input stream of Map, Reduce and Sort
MaxGraphs == 3     \* Graph objects built in one behaviour
MaxRuns == 2       \* runs of a Map pipeline over the same caller's records

(***************************************************************************)
(* Python values.                                                          *)
(***************************************************************************)
None == <<>>
Some(x) == <<x>>

Truthy(s) == s # <<>>

RECURSIVE Concat(_)
Concat(ss) == IF ss = <<>> THEN <<>> ELSE Head(ss) \o Concat(Tail(ss))

RECURSIVE SumSeq(_)
SumSeq(ns) == IF ns = <<>> THEN 0 ELSE Head(ns) + SumSeq(Tail(ns))

SeqsUpTo(S, n) == UNION {[1..m -> S] : m \in 0..n}

Range(s) == {s[i] : i \in DOMAIN s}

\* lexicographic order of two value tuples of the same length (Python tuple <)
TupleLess(a, b) ==
    \E i \in 1..Len(a) : a[i] < b[i] /\ \A j \in 1..(i - 1) : a[j] = b[j]

TupleGE(a, b) == ~TupleLess(a, b)

\* tuple(row[key] for key in self.keys)
grouper(row, keys) == [i \in 1..Len(keys) |-> row[keys[i]]]

\* d1 | d2 on dicts: the right operand wins on a common field
DictUnion(d1, d2) ==
    [f \in DOMAIN d1 \cup DOMAIN d2 |-> IF f \in DOMAIN d2 THEN d2[f] ELSE d1[f]]

\* row.keys() yields the fields of a dict in the order they were inserted.  The
\* records of this model that carry several of these fields were made with
\* the fields inserted in this order; where a field is in no such record its
\* place does not matter.
insertion_order == <<"k", "v_2", "v", "w">>

InsertedAt(k) ==
    IF k \in Range(insertion_order)
    THEN CHOOSE i \in 1..Len(insertion_order) : insertion_order[i] = k
    ELSE 0

\* {k + suffix if k in suffixed else k: row[k] for k in row.keys()}: when two
\* fields get the same name the one inserted later is the one kept
Renamed(row, suffixed, suffix) ==
    LET name(k) == IF k \in suffixed THEN k \o suffix ELSE k
        from(f) == {k \in DOMAIN row : name(k) = f}
    IN  [f \in {name(k) : k \in DOMAIN row} |->
            row[CHOOSE k \in from(f) : \A k2 \in from(f) : InsertedAt(k2) <= InsertedAt(k)]]

(***************************************************************************)
(* itertools.groupby: the group that starts at position i of rows is the   *)
(* maximal run of records whose key equals that of rows[i].                *)
(***************************************************************************)
RECURSIVE RunEnd(_, _, _)
RunEnd(rows, keys, i) ==
    IF i < Len(rows) /\ grouper(rows[i + 1], keys) = grouper(rows[i], keys)
    THEN RunEnd(rows, keys, i + 1)
    ELSE i

\* the records lo..hi of a stream, each tagged with its position in the stream
Slice(rows, lo, hi) == [n \in 1..(hi - lo + 1) |-> [row |-> rows[lo + n - 1], idx |-> lo + n - 1]]

(***************************************************************************)
(* Joiners.  A joiner gets the two groups as sequences of tagged records   *)
(* and yields output items [row, a, b]: the emitted record and the         *)
(* positions (0 for none) of the left and right records it was made from.  *)
(***************************************************************************)
a_suffix == "_1"
b_suffix == "_2"

\* the record emitted for one pair, given the suffix sets fixed at the first pair
PairRow(row_a, row_b, suffix_a, suffix_b) ==
    DictUnion(Renamed(row_a, suffix_a, a_suffix), Renamed(row_b, suffix_b, b_suffix))

inner_join(keys, rows_a, rows_b) ==
    LET na == Len(rows_a)
        nb == Len(rows_b)
        first_a == rows_a[1].row
        first_b == rows_b[1].row
        suffix_a == {k \in DOMAIN first_a : k \in DOMAIN first_b /\ k \notin Range(keys)}
        suffix_b == {k \in DOMAIN first_b : k \in DOMAIN first_a /\ k \notin Range(keys)}
    IN  [n \in 1..(na * nb) |->
            LET ra == rows_a[((n - 1) \div nb) + 1]
                rb == rows_b[((n - 1) % nb) + 1]
            IN  [row |-> PairRow(ra.row, rb.row, suffix_a, suffix_b),
                 a |-> ra.idx, b |-> rb.idx]]

Verbatim_a(rows_a) == [n \in 1..Len(rows_a) |-> [row |-> rows_a[n].row, a |-> rows_a[n].idx, b |-> 0]]
Verbatim_b(rows_b) == [n \in 1..Len(rows_b) |-> [row |-> rows_b[n].row, a |-> 0, b |-> rows_b[n].idx]]

InnerJoiner(keys, rows_a, rows_b) ==
    IF Truthy(rows_a) \/ Truthy(rows_b)
    THEN inner_join(keys, rows_a, rows_b)
    ELSE <<>>

\* a joiner that forgets the groups of the right side alone
OuterJoiner_DropsRightOnly(keys, rows_a, rows_b) ==
    IF ~Truthy(rows_a) THEN <<>>
    ELSE IF ~Truthy(rows_b) THEN Verbatim_a(rows_a)
    ELSE inner_join(keys, rows_a, rows_b)

OuterJoiner(keys, rows_a, rows_b) ==
    IF ~Truthy(rows_a) THEN Verbatim_b(rows_b)
    ELSE IF ~Truthy(rows_b) THEN Verbatim_a(rows_a)
    ELSE inner_join(keys, rows_a, rows_b)

\* a joiner that forgets the left groups without a right match
LeftJoiner_DropsUnmatched(keys, rows_a, rows_b) ==
    IF ~Truthy(rows_a) \/ ~Truthy(rows_b) THEN <<>>
    ELSE inner_join(keys, rows_a, rows_b)

LeftJoiner(keys, rows_a, rows_b) ==
    IF ~Truthy(rows_a) THEN <<>>
    ELSE IF ~Truthy(rows_b) THEN Verbatim_a(rows_a)
    ELSE inner_join(keys, rows_a, rows_b)

RightJoiner(keys, rows_a, rows_b) ==
    IF ~Truthy(rows_b) THEN <<>>
    ELSE IF ~Truthy(rows_a) THEN Verbatim_b(rows_b)
    ELSE inner_join(keys, rows_a, rows_b)

Joiners == {"InnerJoiner", "OuterJoiner", "LeftJoiner", "RightJoiner"}

CallJoiner(joiner, keys, rows_a, rows_b) ==
    CASE joiner = "InnerJoiner" -> InnerJoiner(keys, rows_a, rows_b)
      [] joiner = "OuterJoiner" -> OuterJoiner(keys, rows_a, rows_b)
      [] joiner = "LeftJoiner"  -> LeftJoiner(keys, rows_a, rows_b)
      [] joiner = "RightJoiner" -> RightJoiner(keys, rows_a, rows_b)

(***************************************************************************)
(* Join.__call__: the sort-merge walk over the two grouped streams.  The   *)
(* state of the generator is a record; JoinIter is one pass of its loop.   *)
(***************************************************************************)
JoinStart(joiner, keys, rows_a, rows_b) ==
    [joiner |-> joiner, keys |-> keys, rows_a |-> rows_a, rows_b |-> rows_b,
     pos_a |-> 1, pos_b |-> 1,
     need_take_a |-> TRUE, need_take_b |-> TRUE,
     key_a |-> None, group_a |-> None,
     key_b |-> None, group_b |-> None,
     calls |-> <<>>, out |-> <<>>, pc |-> "loop"]

\* a take that ends every group after its first record
take_next_from_iterable_OneRecord(rows, keys, pos) ==
    IF pos > Len(rows)
    THEN [key |-> None, group |-> None, pos |-> pos]
    ELSE [key |-> Some(grouper(rows[pos], keys)),
          group |-> Some(<<pos, pos>>),
          pos |-> pos + 1]

\* next(groups) under take_next_from_iterable: (None, None) on StopIteration
take_next_from_iterable(rows, keys, pos) ==
    IF pos > Len(rows)
    THEN [key |-> None, group |-> None, pos |-> pos]
    ELSE [key |-> Some(grouper(rows[pos], keys)),
          group |-> Some(<<pos, RunEnd(rows, keys, pos)>>),
          pos |-> RunEnd(rows, keys, pos) + 1]

\* the state after lines 160-163: the groups taken where a take is needed
JoinTaken(s) ==
    LET ta == IF s.need_take_a
              THEN take_next_from_iterable(s.rows_a, s.keys, s.pos_a)
              ELSE [key |-> s.key_a, group |-> s.group_a, pos |-> s.pos_a]
        tb == IF s.need_take_b
              THEN take_next_from_iterable(s.rows_b, s.keys, s.pos_b)
              ELSE [key |-> s.key_b, group |-> s.group_b, pos |-> s.pos_b]
    IN  [s EXCEPT !.key_a = ta.key, !.group_a = ta.group, !.pos_a = ta.pos,
                  !.key_b = tb.key, !.group_b = tb.group, !.pos_b = tb.pos]

\* the walk with the key comparison of line 174 turned around
JoinBranch_Reversed(s) ==
    LET t == JoinTaken(s)
    IN  IF t.group_b = None /\ t.group_a = None THEN "break"
        ELSE IF t.key_a = t.key_b THEN "both"
        ELSE IF t.key_a # None /\ (t.key_b = None \/ TupleGE(t.key_a[1], t.key_b[1]))
             THEN "left"
        ELSE "right"

\* the walk without the "key_a is not None" test of line 174
JoinBranch_LeftWhenExhausted(s) ==
    LET t == JoinTaken(s)
    IN  IF t.group_b = None /\ t.group_a = None THEN "break"
        ELSE IF t.key_a = t.key_b THEN "both"
        ELSE IF t.key_a = None \/ t.key_b = None \/ TupleGE(t.key_b[1], t.key_a[1])
             THEN "left"
        ELSE "right"

\* which branch of lines 165-181 the loop takes
JoinBranch(s) ==
    LET t == JoinTaken(s)
    IN  IF t.group_b = None /\ t.group_a = None THEN "break"
        ELSE IF t.key_a = t.key_b THEN "both"
        ELSE IF t.key_a # None /\ (t.key_b = None \/ TupleGE(t.key_b[1], t.key_a[1]))
             THEN "left"
        ELSE "right"

\* group or []
OrEmpty(rows, group) ==
    IF group = None THEN <<>> ELSE Slice(rows, group[1][1], group[1][2])

\* a loop that takes a new group on both sides in every pass
JoinIter_AlwaysTakes(s) ==
    LET pass(t, br) ==
            LET ga == IF br \in {"both", "left"} THEN OrEmpty(t.rows_a, t.group_a) ELSE <<>>
                gb == IF br \in {"both", "right"} THEN OrEmpty(t.rows_b, t.group_b) ELSE <<>>
            IN  IF br = "break" THEN [t EXCEPT !.pc = "done"]
                ELSE [t EXCEPT !.need_take_a = TRUE,
                               !.need_take_b = TRUE,
                               !.calls = Append(@, [a |-> ga, b |-> gb]),
                               !.out = @ \o CallJoiner(t.joiner, t.keys, ga, gb)]
    IN  CHOOSE res \in {pass(t, br) : t \in {JoinTaken(s)}, br \in {JoinBranch(s)}} : TRUE

\* a loop whose right-only branch does not mark the right side to advance
JoinIter_RightNotMarked(s) ==
    LET pass(t, br) ==
            LET ga == IF br \in {"both", "left"} THEN OrEmpty(t.rows_a, t.group_a) ELSE <<>>
                gb == IF br \in {"both", "right"} THEN OrEmpty(t.rows_b, t.group_b) ELSE <<>>
            IN  IF br = "break" THEN [t EXCEPT !.pc = "done"]
                ELSE [t EXCEPT !.need_take_a = (br \in {"both", "left"}),
                               !.need_take_b = (br = "both"),
                               !.calls = Append(@, [a |-> ga, b |-> gb]),
                               !.out = @ \o CallJoiner(t.joiner, t.keys, ga, gb)]
    IN  CHOOSE res \in {pass(t, br) : t \in {JoinTaken(s)}, br \in {JoinBranch(s)}} : TRUE

\* one pass of the loop, lines 159-181 (the CHOOSE over a one-element set names
\* the taken groups and the branch once for the whole pass)
JoinIter(s) ==
    LET pass(t, br) ==
            LET ga == IF br \in {"both", "left"} THEN OrEmpty(t.rows_a, t.group_a) ELSE <<>>
                gb == IF br \in {"both", "right"} THEN OrEmpty(t.rows_b, t.group_b) ELSE <<>>
            IN  IF br = "break" THEN [t EXCEPT !.pc = "done"]
                ELSE [t EXCEPT !.need_take_a = (br \in {"both", "left"}),
                               !.need_take_b = (br \in {"both", "right"}),
                               !.calls = Append(@, [a |-> ga, b |-> gb]),
                               !.out = @ \o CallJoiner(t.joiner, t.keys, ga, gb)]
    IN  CHOOSE res \in {pass(t, br) : t \in {JoinTaken(s)}, br \in {JoinBranch(s)}} : TRUE

RECURSIVE JoinLoop(_)
JoinLoop(s) == IF s.pc = "done" THEN s ELSE JoinLoop(JoinIter(s))

\* list(Join(joiner, keys)(rows_a, rows_b))
JoinCall(joiner, keys, rows_a, rows_b) ==
    LET items == JoinLoop(JoinStart(joiner, keys, rows_a, rows_b)).out
    IN  [n \in 1..Len(items) |-> items[n].row]

(***************************************************************************)
(* The Join operator run on its own: two input streams, a key tuple and a  *)
(* joiner are chosen, then the loop runs one pass at a time.               *)
(***************************************************************************)
Idle == [pc |-> "idle"]

RowsL == {[k |-> 1, v |-> 1], [k |-> 1, v |-> 2], [k |-> 2, v |-> 1], [k |-> 3, v |-> 1]}
RowsR == {[k |-> 1, v |-> 1], [k |-> 1, w |-> 1], [k |-> 2, v |-> 2], [k |-> 3, v |-> 1]}
JoinKeys == {<<>>, <<"k">>}

\* records joined on a key field whose name is another field's name with a
\* suffix
RowsS == {[v_2 |-> 1, v |-> 1], [v_2 |-> 1, v |-> 2], [v_2 |-> 2, v |-> 2]}
SuffixLikeKeys == {<<"v_2">>}

InitJoin ==
    /\ jn \in {JoinStart(j, K, L, R) :
                  j \in Joiners, K \in JoinKeys,
                  L \in SeqsUpTo(RowsL, MaxLen), R \in SeqsUpTo(RowsR, MaxLen)}
              \cup
              {JoinStart(j, K, L, R) :
                  j \in Joiners, K \in SuffixLikeKeys,
                  L \in SeqsUpTo(RowsS, MaxLen), R \in SeqsUpTo(RowsS, MaxLen)}
    /\ mp = Idle /\ rd = Idle /\ srt = Idle
    /\ heap = <<>> /\ graphs = <<>> /\ built = <<>> /\ run = Idle

JoinFrame == UNCHANGED <<mp, rd, srt, heap, graphs, built, run>>

JoinBoth ==
    /\ jn.pc = "loop" /\ JoinBranch(jn) = "both"
    /\ jn' = JoinIter(jn) /\ JoinFrame

JoinLeft ==
    /\ jn.pc = "loop" /\ JoinBranch(jn) = "left"
    /\ jn' = JoinIter(jn) /\ JoinFrame

JoinRight ==
    /\ jn.pc = "loop" /\ JoinBranch(jn) = "right"
    /\ jn' = JoinIter(jn) /\ JoinFrame

JoinBreak ==
    /\ jn.pc = "loop" /\ JoinBranch(jn) = "break"
    /\ jn' = JoinIter(jn) /\ JoinFrame

NextJoin == JoinBoth \/ JoinLeft \/ JoinRight \/ JoinBreak

SpecJoin == InitJoin /\ [][NextJoin]_vars

\* The loop under the scheduling the code gives it: the consumer drains the
\* generator (list(current_generator)), so a loop that can make a pass makes
\* it.  The streams here are short ones over two records a side, sorted or not.
FairRowsL == {[k |-> 1, v |-> 1], [k |-> 2, v |-> 1]}
FairRowsR == {[k |-> 2, v |-> 2], [k |-> 3, v |-> 1]}

InitJoinFair ==
    /\ jn \in {JoinStart(j, K, L, R) :
                  j \in Joiners, K \in JoinKeys,
                  L \in SeqsUpTo(FairRowsL, MaxLen), R \in SeqsUpTo(FairRowsR, MaxLen)}
    /\ mp = Idle /\ rd = Idle /\ srt = Idle
    /\ heap = <<>> /\ graphs = <<>> /\ built = <<>> /\ run = Idle

SpecJoinFair == InitJoinFair /\ [][NextJoin]_vars /\ WF_vars(NextJoin)

(***************************************************************************)
(* What the claims about Join speak of.                                    *)
(***************************************************************************)
\* a stream is key-sorted: non-decreasing in the lexicographic key order
KeySorted(rows, keys) ==
    \A i \in 1..(Len(rows) - 1) :
        ~TupleLess(grouper(rows[i + 1], keys), grouper(rows[i], keys))

KeySet(rows, keys) == {grouper(rows[i], keys) : i \in DOMAIN rows}

\* the positions of the records of rows whose key is key, in stream order
KeyIdx(rows, keys, key) ==
    SelectSeq([i \in 1..Len(rows) |-> i], LAMBDA i : grouper(rows[i], keys) = key)

\* the key values of a set in ascending order
RECURSIVE Ascending(_)
Ascending(S) ==
    IF S = {} THEN <<>>
    ELSE LET m == CHOOSE x \in S : \A y \in S : ~TupleLess(y, x)
         IN  <<m>> \o Ascending(S \ {m})

\* the pairs of ia x ib, ia-major
Cross(ia, ib) ==
    [n \in 1..(Len(ia) * Len(ib)) |->
        <<ia[((n - 1) \div Len(ib)) + 1], ib[((n - 1) % Len(ib)) + 1]>>]

\* where each output record of the join came from
Prov(out) == [n \in 1..Len(out) |-> <<out[n].a, out[n].b>>]

\* what a join is to emit for one key: the cross product when both sides have
\* the key, else the present side alone if the policy keeps that side
PerKey(L, R, keys, key, keepL, keepR) ==
    LET ia == KeyIdx(L, keys, key)
        ib == KeyIdx(R, keys, key)
    IN  IF ia # <<>> /\ ib # <<>> THEN Cross(ia, ib)
        ELSE IF ia # <<>> THEN (IF keepL THEN [n \in 1..Len(ia) |-> <<ia[n], 0>>] ELSE <<>>)
        ELSE (IF keepR THEN [n \in 1..Len(ib) |-> <<0, ib[n]>>] ELSE <<>>)

Policy(L, R, keys, keepL, keepR) ==
    LET ks == Ascending(KeySet(L, keys) \cup KeySet(R, keys))
    IN  Concat([n \in 1..Len(ks) |-> PerKey(L, R, keys, ks[n], keepL, keepR)])

\* an output record made from one side alone is that side's record, unchanged
VerbatimOK(s) ==
    \A n \in 1..Len(s.out) :
        /\ (s.out[n].b = 0 => s.out[n].row = s.rows_a[s.out[n].a])
        /\ (s.out[n].a = 0 => s.out[n].row = s.rows_b[s.out[n].b])

JoinDoneSorted(s, joiner) ==
    /\ s.pc = "done" /\ s.joiner = joiner
    /\ KeySorted(s.rows_a, s.keys) /\ KeySorted(s.rows_b, s.keys)

\* C8: for L and R key-sorted by K, the inner join emits exactly one record per
\* pair (l, r) of L x R with equal keys, the pairs in ascending key order (for
\* sorted L that is the order of the pairs by position), nothing for a key of
\* one side only, and with the empty key tuple the whole cross product L x R.
C8_InnerJoinCrossProduct ==
    JoinDoneSorted(jn, "InnerJoiner") =>
        LET L == jn.rows_a
            R == jn.rows_b
            all == Cross([i \in 1..Len(L) |-> i], [j \in 1..Len(R) |-> j])
            matching(p) == grouper(L[p[1]], jn.keys) = grouper(R[p[2]], jn.keys)
        IN  /\ Prov(jn.out) = SelectSeq(all, matching)
            /\ \A n \in 1..(Len(jn.out) - 1) :
                  ~TupleLess(grouper(L[jn.out[n + 1].a], jn.keys),
                             grouper(L[jn.out[n].a], jn.keys))
            /\ \A key \in KeySet(L, jn.keys) \cup KeySet(R, jn.keys) :
                  Cardinality({n \in 1..Len(jn.out) :
                                  grouper(L[jn.out[n].a], jn.keys) = key})
                    = Len(KeyIdx(L, jn.keys, key)) * Len(KeyIdx(R, jn.keys, key))
            /\ (jn.keys = <<>> => Prov(jn.out) = all)

C8_Witness ==
    /\ JoinDoneSorted(jn, "InnerJoiner") /\ jn.keys = <<"k">>
    /\ Len(jn.out) = 2
    /\ \E i \in 1..Len(jn.rows_a) : jn.rows_a[i].k \notin {jn.rows_b[j].k : j \in 1..Len(jn.rows_b)}

\* C9: for L and R key-sorted by K, the outer join emits, key by key in
\* ascending order, the cross product for a key of both sides, the L records
\* unchanged for a key of L only and the R records unchanged for a key of R
\* only; every input record of either side is the origin of an output record.
C9_OuterJoinPolicy ==
    JoinDoneSorted(jn, "OuterJoiner") =>
        /\ Prov(jn.out) = Policy(jn.rows_a, jn.rows_b, jn.keys, TRUE, TRUE)
        /\ VerbatimOK(jn)
        /\ \A i \in 1..Len(jn.rows_a) : \E n \in 1..Len(jn.out) : jn.out[n].a = i
        /\ \A j \in 1..Len(jn.rows_b) : \E n \in 1..Len(jn.out) : jn.out[n].b = j

C9_Witness ==
    /\ JoinDoneSorted(jn, "OuterJoiner") /\ jn.keys = <<"k">>
    /\ \E n \in 1..Len(jn.out) : jn.out[n].a # 0 /\ jn.out[n].b # 0
    /\ \E n \in 1..Len(jn.out) : jn.out[n].b = 0
    /\ \E n \in 1..Len(jn.out) : jn.out[n].a = 0

\* C10: for L and R key-sorted by K, the left join emits the cross product
\* for a key of both sides, the L records unchanged for a key of L only and
\* nothing for a key of R only; the right join is the mirror image.
C10_LeftRightJoinPolicy ==
    /\ JoinDoneSorted(jn, "LeftJoiner") =>
          /\ Prov(jn.out) = Policy(jn.rows_a, jn.rows_b, jn.keys, TRUE, FALSE)
          /\ VerbatimOK(jn)
    /\ JoinDoneSorted(jn, "RightJoiner") =>
          /\ Prov(jn.out) = Policy(jn.rows_a, jn.rows_b, jn.keys, FALSE, TRUE)
          /\ VerbatimOK(jn)

C10_Witness ==
    /\ JoinDoneSorted(jn, "LeftJoiner") /\ jn.keys = <<"k">>
    /\ \E n \in 1..Len(jn.out) : jn.out[n].a # 0 /\ jn.out[n].b # 0
    /\ \E n \in 1..Len(jn.out) : jn.out[n].b = 0
    /\ \E j \in 1..Len(jn.rows_b) : \A n \in 1..Len(jn.out) : jn.out[n].b # j

(***************************************************************************)
(* Reducers.  A reducer gets the key names and one group (tagged records)  *)
(* and yields records.  Count and FirstReducer assert that the group is    *)
(* not empty.                                                              *)
(***************************************************************************)
count_column == "count"

\* a Count that copies the whole first record instead of its key fields
Count_CopiesSample(group_key, rows) ==
    <<DictUnion(rows[1].row, [f \in {count_column} |-> Len(rows)])>>

Count(group_key, rows) ==
    LET row_sample == rows[1].row
        length == Len(rows)
        result == [f \in Range(group_key) |-> row_sample[f]]
    IN  <<DictUnion(result, [f \in {count_column} |-> length])>>

FirstReducer(group_key, rows) == <<rows[1].row>>

Reducers == {"Count", "FirstReducer"}

\* assert row_sample is not None / assert first_row is not None
ReducerAsserts(reducer, rows) == rows # <<>>

CallReducer(reducer, group_key, rows) ==
    CASE reducer = "Count"        -> Count(group_key, rows)
      [] reducer = "FirstReducer" -> FirstReducer(group_key, rows)

(***************************************************************************)
(* Reduce.__call__: itertools.groupby over get_value, the reducer called   *)
(* on each group.  ReduceIter is one pass of the for loop.                 *)
(***************************************************************************)
\* a key function that reads the first key field for every key position
get_value_FirstKeyOnly(row, keys) == [i \in 1..Len(keys) |-> row[keys[1]]]

\* [row[key] for key in self.keys]
get_value(row, keys) == [i \in 1..Len(keys) |-> row[keys[i]]]

RECURSIVE GroupEnd(_, _, _)
GroupEnd(rows, keys, i) ==
    IF i < Len(rows) /\ get_value(rows[i + 1], keys) = get_value(rows[i], keys)
    THEN GroupEnd(rows, keys, i + 1)
    ELSE i

ReduceStart(reducer, keys, rows) ==
    [reducer |-> reducer, keys |-> keys, rows |-> rows, pos |-> 1,
     calls |-> <<>>, out |-> <<>>, failed |-> FALSE, pc |-> "loop"]

\* a loop that hands the reducer one more, empty, group at the end of the stream
ReduceIter_EmptyGroupAtEnd(s) ==
    IF s.pos > Len(s.rows)
    THEN [s EXCEPT !.calls = Append(@, <<>>),
                   !.failed = ~ReducerAsserts(s.reducer, <<>>), !.pc = "done"]
    ELSE LET hi == GroupEnd(s.rows, s.keys, s.pos)
             g == Slice(s.rows, s.pos, hi)
         IN  [s EXCEPT !.pos = hi + 1,
                       !.calls = Append(@, g),
                       !.out = @ \o CallReducer(s.reducer, s.keys, g)]

ReduceIter(s) ==
    IF s.pos > Len(s.rows) THEN [s EXCEPT !.pc = "done"]
    ELSE LET hi == GroupEnd(s.rows, s.keys, s.pos)
             g == Slice(s.rows, s.pos, hi)
         IN  IF ~ReducerAsserts(s.reducer, g)
             THEN [s EXCEPT !.calls = Append(@, g), !.failed = TRUE, !.pc = "done"]
             ELSE [s EXCEPT !.pos = hi + 1,
                            !.calls = Append(@, g),
                            !.out = @ \o CallReducer(s.reducer, s.keys, g)]

RECURSIVE ReduceLoop(_)
ReduceLoop(s) == IF s.pc = "done" THEN s ELSE ReduceLoop(ReduceIter(s))

\* list(Reduce(reducer, keys)(rows))
ReduceCall(reducer, keys, rows) == ReduceLoop(ReduceStart(reducer, keys, rows)).out

(***************************************************************************)
(* The Reduce operator run on its own.                                     *)
(***************************************************************************)
RowsD == {[k |-> kk, v |-> vv] : kk \in {1, 2, 3}, vv \in {1, 2}}
ReduceKeys == {<<>>, <<"k">>, <<"k", "v">>}

InitReduce ==
    /\ rd \in {ReduceStart(r, K, rows) :
                  r \in Reducers, K \in ReduceKeys, rows \in SeqsUpTo(RowsD, MaxRows)}
    /\ mp = Idle /\ srt = Idle /\ jn = Idle
    /\ heap = <<>> /\ graphs = <<>> /\ built = <<>> /\ run = Idle

ReduceGroup ==
    /\ rd.pc = "loop" /\ rd.pos <= Len(rd.rows)
    /\ rd' = ReduceIter(rd)
    /\ UNCHANGED <<mp, srt, jn, heap, graphs, built, run>>

ReduceEnd ==
    /\ rd.pc = "loop" /\ rd.pos > Len(rd.rows)
    /\ rd' = ReduceIter(rd)
    /\ UNCHANGED <<mp, srt, jn, heap, graphs, built, run>>

NextReduce == ReduceGroup \/ ReduceEnd

SpecReduce == InitReduce /\ [][NextReduce]_vars

\* the key of a group handed to the reducer
GroupKey(g, keys) == grouper(g[1].row, keys)

\* C6: Reduce calls the reducer once per maximal run of consecutive key-equal
\* records: the groups handed over are non-empty and key-equal, neighbouring
\* groups differ in key, and laid end to end they are the input, record for
\* record in input order; the output is the reducer outputs laid end to end.
\* For key-sorted input there are as many groups as distinct keys; with the
\* empty key tuple a non-empty input is one group.
C6_ReduceMaximalRuns ==
    rd.pc = "done" =>
        /\ Concat(rd.calls) = Slice(rd.rows, 1, Len(rd.rows))
        /\ \A n \in 1..Len(rd.calls) :
              /\ rd.calls[n] # <<>>
              /\ \A i \in 1..Len(rd.calls[n]) :
                    grouper(rd.calls[n][i].row, rd.keys) = GroupKey(rd.calls[n], rd.keys)
        /\ \A n \in 1..(Len(rd.calls) - 1) :
              GroupKey(rd.calls[n], rd.keys) # GroupKey(rd.calls[n + 1], rd.keys)
        /\ rd.out = Concat([n \in 1..Len(rd.calls) |->
                               CallReducer(rd.reducer, rd.keys, rd.calls[n])])
        /\ (KeySorted(rd.rows, rd.keys) =>
                Len(rd.calls) = Cardinality(KeySet(rd.rows, rd.keys)))
        /\ (rd.keys = <<>> /\ rd.rows # <<>> => Len(rd.calls) = 1)

\* an unsorted input in which one key gets two groups
C6_Witness ==
    /\ rd.pc = "done" /\ rd.keys = <<"k">>
    /\ ~KeySorted(rd.rows, rd.keys)
    /\ Len(rd.calls) > Cardinality(KeySet(rd.rows, rd.keys))

\* C7: Reduce with Count over key-sorted input yields one record per distinct
\* key, in the order of the groups, made of the key fields and the count
\* column alone, the count being the number of input records with that key;
\* the counts add up to the length of the input.
C7_CountPerDistinctKey ==
    (rd.pc = "done" /\ rd.reducer = "Count" /\ KeySorted(rd.rows, rd.keys)) =>
        LET ks == Ascending(KeySet(rd.rows, rd.keys))
        IN  /\ Len(rd.out) = Len(ks)
            /\ \A n \in 1..Len(rd.out) :
                  /\ DOMAIN rd.out[n] = Range(rd.keys) \cup {count_column}
                  /\ grouper(rd.out[n], rd.keys) = ks[n]
                  /\ rd.out[n][count_column] = Len(KeyIdx(rd.rows, rd.keys, ks[n]))
            /\ SumSeq([n \in 1..Len(rd.out) |-> rd.out[n][count_column]]) = Len(rd.rows)

C7_Witness ==
    /\ rd.pc = "done" /\ rd.reducer = "Count" /\ rd.keys = <<"k">>
    /\ KeySorted(rd.rows, rd.keys)
    /\ Len(rd.out) = 2
    /\ \E n \in 1..Len(rd.out) : rd.out[n][count_column] = 2

(***************************************************************************)
(* Mappers.  A text value is a sequence of one-character strings.  A       *)
(* mapper call yields `out`, the records it emits, and `row`, the value    *)
(* of the record object it was given once the call is over (Product        *)
(* assigns to a field of the record it is given).                          *)
(***************************************************************************)
Whitespace == {" "}

\* str.split() with no separator: the maximal runs of non-whitespace
RECURSIVE SplitNone(_, _, _)
SplitNone(text, part, parts) ==
    LET closed == IF part = <<>> THEN parts ELSE Append(parts, part)
    IN  IF text = <<>> THEN closed
        ELSE IF Head(text) \in Whitespace THEN SplitNone(Tail(text), <<>>, closed)
        ELSE SplitNone(Tail(text), Append(part, Head(text)), parts)

DummyMapper(row) == [out |-> <<row>>, row |-> row]

\* Filter(condition) with condition = lambda row: row["k"] > 1
FilterCondition(row) == row["k"] > 1
Filter(row) == [out |-> IF FilterCondition(row) THEN <<row>> ELSE <<>>, row |-> row]

\* Split(column = "t", separator = None)
Split(row) ==
    LET parts == SplitNone(row["t"], <<>>, <<>>)
    IN  [out |-> [n \in 1..Len(parts) |-> [row EXCEPT !["t"] = parts[n]]], row |-> row]

\* Project(columns = ["k"])
Project(row) == [out |-> <<[key \in {"k"} |-> row[key]]>>, row |-> row]

\* Product(columns = ["k", "k"], result_column = "k"): row[result_column] = res
\* is an assignment to the record the mapper was given
Product(row) ==
    LET res == (1 * row["k"]) * row["k"]
        row2 == DictUnion(row, [f \in {"k"} |-> res])
    IN  [out |-> <<row2>>, row |-> row2]

Mappers == {"DummyMapper", "Filter", "Split", "Project", "Product"}

CallMapper(mapper, row) ==
    CASE mapper = "DummyMapper" -> DummyMapper(row)
      [] mapper = "Filter"      -> Filter(row)
      [] mapper = "Split"       -> Split(row)
      [] mapper = "Project"     -> Project(row)
      [] mapper = "Product"     -> Product(row)

(***************************************************************************)
(* Map.__call__.  rows are the caller's record objects, input their        *)
(* values when the stream was handed over.  runs counts the finished       *)
(* passes over these objects and first keeps what the first pass returned. *)
(***************************************************************************)
MapStart(mapper, rows) ==
    [mapper |-> mapper, rows |-> rows, input |-> rows, pos |-> 1, out |-> <<>>,
     runs |-> 0, first |-> <<>>, pc |-> "loop"]

MapFinish(s) ==
    [s EXCEPT !.pc = "done", !.runs = @ + 1, !.first = IF s.runs = 0 THEN s.out ELSE @]

\* a Map that takes the first record of each mapper call only
MapIter_FirstOnly(s) ==
    IF s.pos > Len(s.rows) THEN MapFinish(s)
    ELSE LET r == CallMapper(s.mapper, s.rows[s.pos])
         IN  [s EXCEPT !.pos = @ + 1,
                       !.rows[s.pos] = r.row,
                       !.out = @ \o (IF r.out = <<>> THEN <<>> ELSE <<r.out[1]>>)]

MapIter(s) ==
    IF s.pos > Len(s.rows) THEN MapFinish(s)
    ELSE LET r == CallMapper(s.mapper, s.rows[s.pos])
         IN  [s EXCEPT !.pos = @ + 1,
                       !.rows[s.pos] = r.row,
                       !.out = @ \o r.out]

RECURSIVE MapLoop(_)
MapLoop(s) == IF s.pc = "done" THEN s ELSE MapLoop(MapIter(s))

\* list(Map(mapper)(rows))
MapCall(mapper, rows) == MapLoop(MapStart(mapper, rows)).out

(***************************************************************************)
(* The Map operator run on its own.                                        *)
(***************************************************************************)
Texts == {<<>>, <<"a">>, <<"a", " ", "b">>}
RowsM == {[k |-> kk, t |-> tt] : kk \in {1, 2}, tt \in Texts}

InitMap ==
    /\ mp \in {MapStart(m, rows) : m \in Mappers, rows \in SeqsUpTo(RowsM, MaxRows)}
    /\ rd = Idle /\ srt = Idle /\ jn = Idle
    /\ heap = <<>> /\ graphs = <<>> /\ built = <<>> /\ run = Idle

MapRow ==
    /\ mp.pc = "loop" /\ mp.pos <= Len(mp.rows)
    /\ mp' = MapIter(mp)
    /\ UNCHANGED <<rd, srt, jn, heap, graphs, built, run>>

MapEnd ==
    /\ mp.pc = "loop" /\ mp.pos > Len(mp.rows)
    /\ mp' = MapIter(mp)
    /\ UNCHANGED <<rd, srt, jn, heap, graphs, built, run>>

\* g = Graph.graph_from_iter("x").map(mapper) is run once more with the same
\* thunk, lambda: iter(rows): the stream is the same record objects again
MapAgain ==
    /\ mp.pc = "done" /\ mp.runs < MaxRuns
    /\ mp' = [mp EXCEPT !.pc = "loop", !.pos = 1, !.out = <<>>, !.input = mp.rows]
    /\ UNCHANGED <<rd, srt, jn, heap, graphs, built, run>>

NextMap == MapRow \/ MapEnd \/ MapAgain

SpecMap == InitMap /\ [][NextMap]_vars

\* C4: at every moment the output of Map is the mapper outputs of the records
\* consumed so far, laid end to end in input order (nothing for a record the
\* mapper drops, several records where it forks); at the end every record has
\* been consumed, and with the identity mapper the output is the input.
C4_MapConcatenatesInOrder ==
    mp.pc # "idle" =>
        /\ mp.out = Concat([i \in 1..(mp.pos - 1) |-> CallMapper(mp.mapper, mp.input[i]).out])
        /\ (mp.pc = "done" => mp.pos = Len(mp.input) + 1)
        /\ (mp.pc = "done" /\ mp.mapper = "DummyMapper" => mp.out = mp.input)

\* a finished Split that dropped one record and forked another
C4_Witness ==
    /\ mp.pc = "done" /\ mp.mapper = "Split"
    /\ \E i \in 1..Len(mp.input) : mp.input[i]["t"] = <<>>
    /\ \E i \in 1..Len(mp.input) : mp.input[i]["t"] = <<"a", " ", "b">>
    /\ Len(mp.out) >= 2

(***************************************************************************)
(* ExternalSort (compgraph/external_sort.py, spec section 4.3): records    *)
(* are gathered into a buffer of run_size records, a full buffer is        *)
(* sorted by the key tuple and spilled as a run, and at the end of the     *)
(* input the runs are merged, the smallest head first.                     *)
(***************************************************************************)
\* an in-memory sort step that puts a record before the records of equal key
SortInsert_BeforeEqual(sorted, item, keys) ==
    LET n == Cardinality({i \in 1..Len(sorted) :
                             TupleLess(grouper(sorted[i].row, keys), grouper(item.row, keys))})
    IN  SubSeq(sorted, 1, n) \o <<item>> \o SubSeq(sorted, n + 1, Len(sorted))

\* insert a record into a sorted buffer, after the records of equal key
SortInsert(sorted, item, keys) ==
    LET n == Cardinality({i \in 1..Len(sorted) :
                             ~TupleLess(grouper(item.row, keys), grouper(sorted[i].row, keys))})
    IN  SubSeq(sorted, 1, n) \o <<item>> \o SubSeq(sorted, n + 1, Len(sorted))

RECURSIVE SortBuffer(_, _)
SortBuffer(buffer, keys) ==
    IF buffer = <<>> THEN <<>>
    ELSE SortInsert(SortBuffer(SubSeq(buffer, 1, Len(buffer) - 1), keys),
                    buffer[Len(buffer)], keys)

SortStart(keys, rows, run_size) ==
    [keys |-> keys, rows |-> rows, run_size |-> run_size, pos |-> 1,
     buffer |-> <<>>, spilled |-> <<>>, out |-> <<>>, pc |-> "read"]

\* the run whose head is merged next: the smallest key, the earliest run on a tie
MergeFrom(s) ==
    LET live == {r \in 1..Len(s.spilled) : s.spilled[r] # <<>>}
        head(r) == grouper(s.spilled[r][1].row, s.keys)
    IN  CHOOSE r \in live :
            \A q \in live : /\ ~TupleLess(head(q), head(r))
                            /\ (head(q) = head(r) => r <= q)

SortIter(s) ==
    IF s.pc = "read" /\ s.pos <= Len(s.rows) THEN
        LET buf == Append(s.buffer, [row |-> s.rows[s.pos], idx |-> s.pos])
        IN  IF Len(buf) >= s.run_size
            THEN [s EXCEPT !.pos = @ + 1, !.buffer = <<>>,
                           !.spilled = Append(@, SortBuffer(buf, s.keys))]
            ELSE [s EXCEPT !.pos = @ + 1, !.buffer = buf]
    ELSE IF s.pc = "read" THEN
        [s EXCEPT !.pc = "merge", !.buffer = <<>>,
                  !.spilled = IF s.buffer = <<>> THEN @
                              ELSE Append(@, SortBuffer(s.buffer, s.keys))]
    ELSE IF \A r \in 1..Len(s.spilled) : s.spilled[r] = <<>> THEN
        [s EXCEPT !.pc = "done"]
    ELSE
        LET r == MergeFrom(s)
        IN  [s EXCEPT !.out = Append(@, s.spilled[r][1]),
                      !.spilled[r] = Tail(@)]

RECURSIVE SortLoop(_)
SortLoop(s) == IF s.pc = "done" THEN s ELSE SortLoop(SortIter(s))

\* list(ExternalSort(keys)(rows)), with runs of two records
SortCall(keys, rows) ==
    LET items == SortLoop(SortStart(keys, rows, 2)).out
    IN  [n \in 1..Len(items) |-> items[n].row]

(***************************************************************************)
(* The Sort operator run on its own.                                       *)
(***************************************************************************)
SortKeys == {<<>>, <<"k">>, <<"v", "k">>}

InitSort ==
    /\ srt \in {SortStart(K, rows, n) :
                   K \in SortKeys, rows \in SeqsUpTo(RowsD, MaxRows), n \in 1..MaxRows}
    /\ mp = Idle /\ rd = Idle /\ jn = Idle
    /\ heap = <<>> /\ graphs = <<>> /\ built = <<>> /\ run = Idle

SortFrame == UNCHANGED <<mp, rd, jn, heap, graphs, built, run>>

SortRead ==
    /\ srt.pc = "read" /\ srt.pos <= Len(srt.rows)
    /\ srt' = SortIter(srt) /\ SortFrame

SortEndOfInput ==
    /\ srt.pc = "read" /\ srt.pos > Len(srt.rows)
    /\ srt' = SortIter(srt) /\ SortFrame

SortMerge ==
    /\ srt.pc = "merge" /\ \E r \in 1..Len(srt.spilled) : srt.spilled[r] # <<>>
    /\ srt' = SortIter(srt) /\ SortFrame

SortDone ==
    /\ srt.pc = "merge" /\ \A r \in 1..Len(srt.spilled) : srt.spilled[r] = <<>>
    /\ srt' = SortIter(srt) /\ SortFrame

NextSort == SortRead \/ SortEndOfInput \/ SortMerge \/ SortDone

SpecSort == InitSort /\ [][NextSort]_vars

\* C5: the output of Sort is the stable sort of its input by K: it holds each
\* input record exactly once, is non-decreasing in the lexicographic order of
\* the K values, and records of equal K keep their relative input order.
C5_SortStable ==
    srt.pc = "done" =>
        /\ Len(srt.out) = Len(srt.rows)
        /\ {srt.out[n].idx : n \in 1..Len(srt.out)} = 1..Len(srt.rows)
        /\ \A n \in 1..Len(srt.out) : srt.out[n].row = srt.rows[srt.out[n].idx]
        /\ \A n \in 1..(Len(srt.out) - 1) :
              ~TupleLess(grouper(srt.out[n + 1].row, srt.keys),
                         grouper(srt.out[n].row, srt.keys))
        /\ \A n, m \in 1..Len(srt.out) :
              (n < m /\ grouper(srt.out[n].row, srt.keys) = grouper(srt.out[m].row, srt.keys))
                  => srt.out[n].idx < srt.out[m].idx

\* a finished sort of an unsorted input with a tie of two different records,
\* larger than one run
C5_Witness ==
    /\ srt.pc = "done" /\ srt.keys = <<"k">>
    /\ ~KeySorted(srt.rows, srt.keys)
    /\ srt.run_size < Len(srt.rows)
    /\ \E i, j \in 1..Len(srt.rows) :
          i < j /\ srt.rows[i].k = srt.rows[j].k /\ srt.rows[i].v # srt.rows[j].v

(***************************************************************************)
(* Graph (compgraph/graph.py).  heap holds the Python list objects (each   *)
(* a sequence of stages), graphs the Graph objects in the order they were  *)
(* made; a Graph object maps the slots that are set to their values, its   *)
(* operations slot being a reference into heap.  built remembers, for      *)
(* each Graph, the from_* call and the builder calls that made it.         *)
(***************************************************************************)
FileSystem == [f \in {"rows.txt"} |-> <<"k=2 v=1", "k=1 v=2", "k=2 v=2">>]

\* the caller's parser, from a line of text to a record
CallParser(parser, line) ==
    CASE line = "k=2 v=1" -> [k |-> 2, v |-> 1]
      [] line = "k=1 v=2" -> [k |-> 1, v |-> 2]
      [] line = "k=2 v=2" -> [k |-> 2, v |-> 2]

\* generator(filename, parser) of graph_from_file
generator(filename, parser) ==
    [n \in 1..Len(FileSystem[filename]) |-> CallParser(parser, FileSystem[filename][n])]

graph_from_iter(name, operations) ==
    [operations |-> operations, return_list |-> TRUE,
     source_type |-> "generator", source |-> name]

graph_from_file(filename, parser, operations) ==
    [operations |-> operations, source_type |-> "file", source |-> filename,
     parser |-> parser, fabric |-> "fabric"]

\* the source binding of a Graph object: every slot but the stage list
Binding(obj) == [f \in DOMAIN obj \ {"operations"} |-> obj[f]]

\* a copy that hands the list object of the original to the new Graph
Graph_copy_SharesList(obj, h) == [graph |-> obj, heap |-> h]

\* Graph.__copy__: copy.copy of every slot that is set; the copy of the
\* operations list is a new list object with the same stages
Graph_copy(obj, h) ==
    [graph |-> [obj EXCEPT !.operations = Len(h) + 1],
     heap |-> Append(h, h[obj.operations])]

\* a builder that puts the new stage in front of the list
list_append_Prepends(h, id, stage) == [h EXCEPT ![id] = <<stage>> \o @]

\* graph.operations.append(stage)
list_append(h, id, stage) == [h EXCEPT ![id] = Append(@, stage)]

MapStage(mapper) == [op |-> "Map", mapper |-> mapper]
ReduceStage(reducer, keys) == [op |-> "Reduce", reducer |-> reducer, keys |-> keys]
SortStage(keys) == [op |-> "Sort", keys |-> keys]
\* join_op, the closure over joiner, join_graph (a reference) and keys
JoinStage(joiner, join_graph, keys) ==
    [op |-> "Join", joiner |-> joiner, join_graph |-> join_graph, keys |-> keys]

Ok(rows) == [ok |-> TRUE, rows |-> rows]
KeyError == [ok |-> FALSE, rows |-> <<>>]

\* a lookup that takes a missing name for an empty stream
Source_MissingIsEmpty(obj, kwargs) ==
    IF obj.source_type = "generator"
    THEN IF obj.source \in DOMAIN kwargs THEN Ok(kwargs[obj.source]) ELSE Ok(<<>>)
    ELSE Ok(generator(obj.source, obj.parser))

\* kwargs[self.source]() or self.fabric()(self.source, self.parser)
Source(obj, kwargs) ==
    IF obj.source_type = "generator"
    THEN IF obj.source \in DOMAIN kwargs THEN Ok(kwargs[obj.source]) ELSE KeyError
    ELSE Ok(generator(obj.source, obj.parser))

(***************************************************************************)
(* Graph.run.  A run is a record: current is the generator built so far    *)
(* (the source stream and the stages bound on top of it, a Join stage with *)
(* the list its right-hand run returned), trace the events of the run in   *)
(* the order they happen:                                                  *)
(*   run    Graph.run is entered for graph g with the named inputs         *)
(*   thunk  kwargs[name]() is called                                       *)
(*   apply  stage number stage of graph g reads its records (it read so    *)
(*          many) and its mapper, reducer, sort or joiner works on them    *)
(* Nothing runs through the bound stages of a graph before its             *)
(* list(current_generator); the run of a right-hand graph happens inside   *)
(* join_op, that is while the outer run binds the Join stage.              *)
(***************************************************************************)
RECURSIVE RunGraph(_, _, _, _)

RunEvent(g, kwargs) == [ev |-> "run", g |-> g, inputs |-> kwargs]
ThunkEvent(name) == [ev |-> "thunk", name |-> name]
ApplyEvent(g, i, n) == [ev |-> "apply", g |-> g, stage |-> i, records |-> n]

\* lines 126-128; prev remembers the finished run before this one when it was
\* a run of the same graph
RunBegin(old, obj, g, kwargs) ==
    LET src == Source(obj, kwargs)
    IN  [pc |-> IF src.ok THEN "thread" ELSE "failed",
         g |-> g, inputs |-> kwargs, i |-> 1,
         current |-> [rows |-> src.rows, stages |-> <<>>],
         out |-> <<>>,
         trace |-> <<RunEvent(g, kwargs)>> \o
                   (IF src.ok /\ obj.source_type = "generator"
                    THEN <<ThunkEvent(obj.source)>> ELSE <<>>),
         prev |-> IF old.pc = "done" /\ old.g = g
                  THEN Some([inputs |-> old.inputs, out |-> old.out]) ELSE None]

\* a join_op that runs the right-hand graph without the named inputs
RunBind_RightWithoutInputs(gs, h, r) ==
    LET stage == h[gs[r.g].operations][r.i]
        bound(right) ==
            IF ~right.ok THEN [r EXCEPT !.pc = "failed", !.trace = @ \o right.trace]
            ELSE [r EXCEPT !.i = @ + 1,
                           !.current.stages = Append(@, [stage |-> stage, right |-> right.rows]),
                           !.trace = @ \o right.trace]
    IN  CHOOSE res \in {bound(right) :
                            right \in {IF stage.op = "Join"
                                       THEN RunGraph(gs, h, stage.join_graph, <<>>)
                                       ELSE [ok |-> TRUE, rows |-> <<>>, trace |-> <<>>]}} : TRUE

\* lines 130-132 for one operation: the operation is called on the generator;
\* join_op runs join_graph at once (line 117) and keeps the list it returns
\* (the CHOOSE over a one-element set names the result of the one right-hand
\* run that is made)
RunBind(gs, h, r) ==
    LET stage == h[gs[r.g].operations][r.i]
        bound(right) ==
            IF ~right.ok THEN [r EXCEPT !.pc = "failed", !.trace = @ \o right.trace]
            ELSE [r EXCEPT !.i = @ + 1,
                           !.current.stages = Append(@, [stage |-> stage, right |-> right.rows]),
                           !.trace = @ \o right.trace]
    IN  CHOOSE res \in {bound(right) :
                            right \in {IF stage.op = "Join"
                                       THEN RunGraph(gs, h, stage.join_graph, r.inputs)
                                       ELSE [ok |-> TRUE, rows |-> <<>>, trace |-> <<>>]}} : TRUE

ApplyBound(bound, rows) ==
    CASE bound.stage.op = "Map"    -> MapCall(bound.stage.mapper, rows)
      [] bound.stage.op = "Reduce" -> ReduceCall(bound.stage.reducer, bound.stage.keys, rows)
      [] bound.stage.op = "Sort"   -> SortCall(bound.stage.keys, rows)
      [] bound.stage.op = "Join"   ->
            JoinCall(bound.stage.joiner, bound.stage.keys, rows, bound.right)

RECURSIVE DrainFrom(_, _, _)
DrainFrom(stages, i, rows) ==
    IF i > Len(stages) THEN rows
    ELSE DrainFrom(stages, i + 1, ApplyBound(stages[i], rows))

\* what stage i of the bound stages reads from the stage before it
StageInput(stages, i, rows) == DrainFrom(SubSeq(stages, 1, i - 1), 1, rows)

\* draining the generator pulls the records through every bound stage
DrainTrace(g, stages, rows) ==
    [i \in 1..Len(stages) |->
        ApplyEvent(g, i, Len(StageInput(stages, i, rows)) + Len(stages[i].right))]

\* line 133: list(current_generator)
RunDrain(r) ==
    [r EXCEPT !.pc = "done",
              !.out = DrainFrom(r.current.stages, 1, r.current.rows),
              !.trace = @ \o DrainTrace(r.g, r.current.stages, r.current.rows)]

\* lines 130-133
RECURSIVE RunLoop(_, _, _)
RunLoop(gs, h, r) ==
    IF r.pc \in {"done", "failed"} THEN r
    ELSE IF r.i <= Len(h[gs[r.g].operations])
         THEN CHOOSE res \in {RunLoop(gs, h, r2) : r2 \in {RunBind(gs, h, r)}} : TRUE
    ELSE RunDrain(r)

\* join_graph.run(**right_kwargs): a whole run, from line 126 to line 133
RunGraph(gs, h, g, kwargs) ==
    CHOOSE res \in {[ok |-> r.pc = "done", rows |-> r.out, trace |-> r.trace] :
                        r \in {RunLoop(gs, h, RunBegin(Idle, gs[g], g, kwargs))}} : TRUE

(***************************************************************************)
(* The library in use: graphs are built and run.  The stages used here     *)
(* (Filter, Count, Sort, OuterJoiner) never assign to a record they are    *)
(* given, so a named input is the sequence of record values its thunk      *)
(* yields; SpecMap covers mappers that assign to the caller's records.     *)
(***************************************************************************)
Names == {"x", "y"}
FileNames == {"rows.txt"}
GraphMappers == {"Filter"}
GraphReducers == {"Count"}
GraphJoiners == {"OuterJoiner"}
GraphKeys == {<<"k">>}

InputsA ==
    [n \in {"x", "y"} |->
        IF n = "x" THEN <<[k |-> 2, v |-> 1], [k |-> 1, v |-> 1], [k |-> 1, v |-> 2]>>
        ELSE <<[k |-> 1, v |-> 2], [k |-> 2, v |-> 2]>>]
InputsB ==
    [n \in {"x"} |-> <<[k |-> 1, v |-> 1], [k |-> 2, v |-> 2], [k |-> 2, v |-> 1]>>]
NamedInputs == {InputsA, InputsB}

Init ==
    /\ heap = <<>> /\ graphs = <<>> /\ built = <<>> /\ run = Idle
    /\ mp = Idle /\ rd = Idle /\ srt = Idle /\ jn = Idle

OpFrame == UNCHANGED <<mp, rd, srt, jn>>

CanBuild == run.pc # "thread" /\ Len(graphs) < MaxGraphs

FromIter ==
    \E name \in Names :
        /\ CanBuild
        /\ heap' = Append(heap, <<>>)
        /\ graphs' = Append(graphs, graph_from_iter(name, Len(heap) + 1))
        /\ built' = Append(built, [binding |-> Binding(graph_from_iter(name, 0)),
                                   calls |-> <<>>])
        /\ UNCHANGED run /\ OpFrame

FromFile ==
    \E filename \in FileNames :
        /\ CanBuild
        /\ heap' = Append(heap, <<>>)
        /\ graphs' = Append(graphs, graph_from_file(filename, "parse_kv", Len(heap) + 1))
        /\ built' = Append(built, [binding |-> Binding(graph_from_file(filename, "parse_kv", 0)),
                                   calls |-> <<>>])
        /\ UNCHANGED run /\ OpFrame

\* graph = copy.copy(self); graph.operations.append(stage); return graph
Build(g, stage) ==
    LET c == Graph_copy(graphs[g], heap)
    IN  /\ CanBuild
        /\ heap' = list_append(c.heap, c.graph.operations, stage)
        /\ graphs' = Append(graphs, c.graph)
        /\ built' = Append(built, [binding |-> built[g].binding,
                                   calls |-> Append(built[g].calls, stage)])
        /\ UNCHANGED run /\ OpFrame

GraphMap == \E g \in DOMAIN graphs, m \in GraphMappers : Build(g, MapStage(m))

GraphReduce ==
    \E g \in DOMAIN graphs, r \in GraphReducers, K \in GraphKeys : Build(g, ReduceStage(r, K))

GraphSort == \E g \in DOMAIN graphs, K \in GraphKeys : Build(g, SortStage(K))

GraphJoin ==
    \E g \in DOMAIN graphs, j \in GraphJoiners, o \in DOMAIN graphs, K \in GraphKeys :
        Build(g, JoinStage(j, o, K))

RunStart ==
    \E g \in DOMAIN graphs, kwargs \in NamedInputs :
        /\ run.pc # "thread"
        /\ run' = RunBegin(run, graphs[g], g, kwargs)
        /\ UNCHANGED <<heap, graphs, built>> /\ OpFrame

RunOperation ==
    /\ run.pc = "thread" /\ run.i <= Len(heap[graphs[run.g].operations])
    /\ run' = RunBind(graphs, heap, run)
    /\ UNCHANGED <<heap, graphs, built>> /\ OpFrame

RunReturn ==
    /\ run.pc = "thread" /\ run.i > Len(heap[graphs[run.g].operations])
    /\ run' = RunDrain(run)
    /\ UNCHANGED <<heap, graphs, built>> /\ OpFrame

Next ==
    \/ FromIter \/ FromFile
    \/ GraphMap \/ GraphReduce \/ GraphSort \/ GraphJoin
    \/ RunStart \/ RunOperation \/ RunReturn

Spec == Init /\ [][Next]_vars

\* the stage list a Graph object holds
Stages(gs, h, g) == h[gs[g].operations]

\* C1: a builder call leaves every Graph that exists unchanged, in its stage
\* list and in its source binding, and a finished run of g has bound exactly
\* the stages of the builder calls that made g, so that the mapper of
\* g2 = g1.map(m) is not among the stages of a run of g1.
C1_BuildersLeaveGraphsUnchanged ==
    [][/\ \A g \in DOMAIN graphs :
             /\ graphs'[g] = graphs[g]
             /\ Stages(graphs', heap', g) = Stages(graphs, heap, g)
       /\ (run'.pc = "done" =>
             [n \in 1..Len(run'.current.stages) |-> run'.current.stages[n].stage]
                = built'[run'.g].calls)]_vars

\* g2 = g1.map(m) was built, a run of g1 has finished, and m would have
\* changed the result
C1_Witness ==
    /\ run.pc = "done"
    /\ \E g2 \in DOMAIN graphs :
          /\ g2 > run.g
          /\ built[g2].binding = built[run.g].binding
          /\ Len(built[g2].calls) = Len(built[run.g].calls) + 1
          /\ SubSeq(built[g2].calls, 1, Len(built[run.g].calls)) = built[run.g].calls
          /\ built[g2].calls[Len(built[g2].calls)].op = "Map"
          /\ RunGraph(graphs, heap, g2, run.inputs).rows # run.out

\* the stages b1..bn applied one after the other to a stream
RECURSIVE Pipeline(_, _, _)
Pipeline(calls, rows, kwargs) ==
    IF calls = <<>> THEN rows
    ELSE LET b == calls[Len(calls)]
             before == Pipeline(SubSeq(calls, 1, Len(calls) - 1), rows, kwargs)
         IN  CASE b.op = "Map"    -> MapCall(b.mapper, before)
               [] b.op = "Reduce" -> ReduceCall(b.reducer, b.keys, before)
               [] b.op = "Sort"   -> SortCall(b.keys, before)
               [] b.op = "Join"   ->
                     JoinCall(b.joiner, b.keys, before,
                              Pipeline(built[b.join_graph].calls,
                                       Source(built[b.join_graph].binding, kwargs).rows,
                                       kwargs))

\* C2: the stage list of every graph is the sequence of the builder calls that
\* made it, in call order, and its source binding is the one from_* set; a
\* finished run returns b1, ..., bn applied in that order to the source
\* stream, which for n = 0 is the source records in their input order.
C2_StagesInCallOrder ==
    /\ \A g \in DOMAIN graphs :
          /\ Stages(graphs, heap, g) = built[g].calls
          /\ Binding(graphs[g]) = built[g].binding
    /\ (run.pc = "done" =>
          LET src == Source(built[run.g].binding, run.inputs).rows
          IN  /\ run.out = Pipeline(built[run.g].calls, src, run.inputs)
              /\ (built[run.g].calls = <<>> => run.out = src))

\* a finished run of a graph of two different stages whose order matters,
\* and a finished run of a graph with no stage
C2_Witness ==
    /\ run.pc = "done"
    /\ Len(built[run.g].calls) = 2
    /\ built[run.g].calls[1].op = "Reduce" /\ built[run.g].calls[2].op = "Map"
    /\ run.out # Pipeline(<<built[run.g].calls[2], built[run.g].calls[1]>>,
                          Source(built[run.g].binding, run.inputs).rows, run.inputs)

\* Graph.run keeps no state: on graphs whose stages assign to no record, a
\* step of run changes no graph, and whatever was run before, a finished run
\* returns what a run of that graph on these named inputs returns on its own.
RunKeepsNoState ==
    [][/\ (run' # run => graphs' = graphs /\ heap' = heap)
       /\ (run'.pc = "done" =>
             run'.out = RunGraph(graphs', heap', run'.g, run'.inputs).rows)]_vars

\* a second run of one graph, on other inputs than its first run and with
\* another result
RunKeepsNoState_Witness ==
    /\ run.pc = "done" /\ run.prev # None
    /\ run.prev[1].inputs # run.inputs
    /\ run.prev[1].out # run.out
    /\ Stages(graphs, heap, run.g) # <<>>

\* C3 as claimed, for g = graph_from_iter("x").map(mapper) run again with the
\* same named inputs: the second run returns what a run on its own returned.
C3_SecondRunAsAlone ==
    (mp.pc = "done" /\ mp.runs >= 2) => mp.out = mp.first

\* C11 as claimed: in the record emitted for a matched pair, every non-key
\* field name that both records of the pair carry appears twice, as f_1 with
\* the left value and as f_2 with the right value, for every pair of the two
\* groups.
C11_CommonFieldsSuffixed ==
    \A n \in 1..Len(jn.out) :
        (jn.out[n].a # 0 /\ jn.out[n].b # 0) =>
            LET row_a == jn.rows_a[jn.out[n].a]
                row_b == jn.rows_b[jn.out[n].b]
                res == jn.out[n].row
            IN  \A f \in (DOMAIN row_a \cap DOMAIN row_b) \ Range(jn.keys) :
                    /\ (f \o a_suffix) \in DOMAIN res /\ res[f \o a_suffix] = row_a[f]
                    /\ (f \o b_suffix) \in DOMAIN res /\ res[f \o b_suffix] = row_b[f]

\* C12 as claimed: in the record emitted for a matched pair every field of
\* the key tuple appears under its own name with the key value of the pair,
\* and under no suffixed name, whatever fields the two records share.
C12_KeyFieldsKept ==
    \A n \in 1..Len(jn.out) :
        (jn.out[n].a # 0 /\ jn.out[n].b # 0) =>
            LET row_a == jn.rows_a[jn.out[n].a]
                res == jn.out[n].row
            IN  \A i \in 1..Len(jn.keys) :
                    /\ jn.keys[i] \in DOMAIN res /\ res[jn.keys[i]] = row_a[jn.keys[i]]
                    /\ (jn.keys[i] \o a_suffix) \notin DOMAIN res
                    /\ (jn.keys[i] \o b_suffix) \notin DOMAIN res

\* C13: for any two input streams, key-sorted or not, every call of the
\* joiner by Join gets at least one group that is not empty, and a Join over
\* two empty streams calls the joiner not at all.
C13_JoinerGetsAGroup ==
    /\ \A n \in 1..Len(jn.calls) : jn.calls[n].a # <<>> \/ jn.calls[n].b # <<>>
    /\ (jn.rows_a = <<>> /\ jn.rows_b = <<>>) => jn.calls = <<>>

\* a finished Join over a left stream that is not key-sorted, in which the
\* joiner was called with a left group alone and with a right group alone
C13_Witness ==
    /\ jn.pc = "done" /\ ~KeySorted(jn.rows_a, jn.keys)
    /\ \E n \in 1..Len(jn.calls) : jn.calls[n].b = <<>>
    /\ \E n \in 1..Len(jn.calls) : jn.calls[n].a = <<>>

\* C14: for any input stream and key tuple, the empty ones included, Reduce
\* never hands the reducer an empty group, so the assertion of the reducer
\* on its first record never fails, and an empty stream gives no call at all.
C14_ReducerNeverGetsEmptyGroup ==
    /\ ~rd.failed
    /\ \A n \in 1..Len(rd.calls) :
          rd.calls[n] # <<>> /\ ReducerAsserts(rd.reducer, rd.calls[n])
    /\ (rd.rows = <<>> => rd.calls = <<>>)

\* a finished Reduce with the empty key tuple over several records
C14_Witness ==
    /\ rd.pc = "done" /\ rd.keys = <<>> /\ Len(rd.rows) >= 2
    /\ Len(rd.calls) = 1 /\ Len(rd.out) = 1

\* the runs a run of graph g is to make, itself first: one run of the
\* right-hand graph for each Join stage of the builder calls that made g
RECURSIVE ExpectedRuns(_, _)
ExpectedRuns(g, kwargs) ==
    <<RunEvent(g, kwargs)>> \o
    Concat([n \in 1..Len(built[g].calls) |->
               IF built[g].calls[n].op = "Join"
               THEN ExpectedRuns(built[g].calls[n].join_graph, kwargs)
               ELSE <<>>])

RunEvents(trace) == SelectSeq(trace, LAMBDA e : e.ev = "run")

\* C15: a run that finishes has run the right-hand graph of each of its Join
\* stages exactly once, with the named inputs of the run itself, and the list
\* each Join stage holds is what the builder calls that had made the
\* right-hand graph give on these inputs: not what an earlier run had, and
\* nothing of a builder call made on the right-hand graph later, the record of
\* the calls that made a graph being never touched.
C15_RightGraphRunsOncePerRun ==
    [][/\ \A g \in DOMAIN built : built'[g] = built[g]
       /\ (run' # run /\ run'.pc = "done" =>
             /\ RunEvents(run'.trace) = ExpectedRuns(run'.g, run'.inputs)
             /\ \A n \in 1..Len(run'.current.stages) :
                   LET b == run'.current.stages[n]
                   IN  b.stage.op = "Join" =>
                           b.right = Pipeline(built[b.stage.join_graph].calls,
                                              Source(built[b.stage.join_graph].binding,
                                                     run'.inputs).rows,
                                              run'.inputs))]_vars

\* a second run of a graph with a Join stage, on other named inputs and with
\* another result than its first run, after a builder call on the right-hand
\* graph of the Join stage
C15_Witness ==
    /\ run.pc = "done" /\ run.prev # None
    /\ run.prev[1].inputs # run.inputs /\ run.prev[1].out # run.out
    /\ \E n \in 1..Len(run.current.stages) :
          LET b == run.current.stages[n]
          IN  /\ b.stage.op = "Join" /\ b.right # <<>>
              /\ \E g3 \in DOMAIN graphs :
                    /\ g3 > run.g
                    /\ built[g3].binding = built[b.stage.join_graph].binding
                    /\ Len(built[g3].calls) = Len(built[b.stage.join_graph].calls) + 1
                    /\ SubSeq(built[g3].calls, 1, Len(built[g3].calls) - 1)
                          = built[b.stage.join_graph].calls

\* C16 as claimed: a mapper leaves the record it is applied to as it was, so
\* the caller's records are, during and after a run, what they were when the
\* stream was handed over.
C16_MappersLeaveRecordsAlone ==
    mp.rows = mp.input

\* graph g reads the named input of its binding and kwargs has no such name
NameLacking(g, kwargs) ==
    /\ built[g].binding.source_type = "generator"
    /\ built[g].binding.source \notin DOMAIN kwargs

\* C17: a run of a graph bound to a name that the named inputs lack fails at
\* its start: it has entered run and nothing more, no thunk was called, no
\* stage bound or applied, no record read, and it has no output.  A
\* right-hand run that fails this way ends the outer run on the spot.
C17_MissingInputFailsAtStart ==
    /\ (run.pc # "idle" /\ NameLacking(run.g, run.inputs)) =>
          /\ run.pc = "failed"
          /\ run.trace = <<RunEvent(run.g, run.inputs)>>
          /\ run.i = 1 /\ run.current = [rows |-> <<>>, stages |-> <<>>]
          /\ run.out = <<>>
    /\ run.pc = "failed" =>
          LET last == run.trace[Len(run.trace)]
          IN  last.ev = "run" /\ last.inputs = run.inputs /\ NameLacking(last.g, run.inputs)
                /\ run.out = <<>>

\* a failed run of a graph that has stages and is bound to a lacking name
C17_Witness ==
    /\ run.pc = "failed" /\ NameLacking(run.g, run.inputs)
    /\ built[run.g].calls # <<>>

\* the joiner calls a Join over key-sorted L and R is to make: one for each
\* key of L or R, in ascending key order, with all records of that key of
\* each side
ExpectedCalls(L, R, keys) ==
    LET ks == Ascending(KeySet(L, keys) \cup KeySet(R, keys))
        side(rows, key) ==
            LET ix == KeyIdx(rows, keys, key)
            IN  [i \in 1..Len(ix) |-> [row |-> rows[ix[i]], idx |-> ix[i]]]
    IN  [n \in 1..Len(ks) |-> [a |-> side(L, ks[n]), b |-> side(R, ks[n])]]

\* C18: for L and R key-sorted by K, the calls of the joiner made so far are the
\* first ones of: one call per distinct key of L or R, in strictly ascending
\* key order, with the complete L-group and the complete R-group of the key
\* (empty where the key is absent); when the loop has stopped all of them
\* were made.  After a call exactly the sides whose group was delivered are
\* marked to advance: both on equal keys, else the side with the smaller
\* key, or the only side that is not exhausted.
C18_OneCallPerKeyAscending ==
    (jn.pc # "idle" /\ KeySorted(jn.rows_a, jn.keys) /\ KeySorted(jn.rows_b, jn.keys)) =>
        LET exp == ExpectedCalls(jn.rows_a, jn.rows_b, jn.keys)
            n == Len(jn.calls)
        IN  /\ n <= Len(exp) /\ jn.calls = SubSeq(exp, 1, n)
            /\ (jn.pc = "done" => n = Len(exp))
            /\ \A m \in 1..(n - 1) :
                  TupleLess(grouper((jn.calls[m].a \o jn.calls[m].b)[1].row, jn.keys),
                            grouper((jn.calls[m + 1].a \o jn.calls[m + 1].b)[1].row, jn.keys))
            /\ (n > 0 /\ jn.pc = "loop" =>
                  /\ jn.need_take_a = (jn.calls[n].a # <<>>)
                  /\ jn.need_take_b = (jn.calls[n].b # <<>>))

\* a finished Join over key-sorted streams with a call on a left group of two
\* records and its right group, and a call on a group of one side alone
C18_Witness ==
    /\ jn.pc = "done" /\ jn.keys = <<"k">>
    /\ KeySorted(jn.rows_a, jn.keys) /\ KeySorted(jn.rows_b, jn.keys)
    /\ \E n \in 1..Len(jn.calls) : Len(jn.calls[n].a) = 2 /\ jn.calls[n].b # <<>>
    /\ \E n \in 1..Len(jn.calls) : jn.calls[n].a = <<>>

\* C19 as claimed: while run threads the stream through the stage list no
\* stage, of the graph or of a right-hand graph, has worked on a record.
C19_NothingAppliedWhileThreading ==
    run.pc = "thread" =>
        \A n \in 1..Len(run.trace) :
            run.trace[n].ev = "apply" => run.trace[n].records = 0

\* the size of the largest group of a stream
LargestGroup(rows, keys) ==
    IF rows = <<>> THEN 0
    ELSE LET size(i) == RunEnd(rows, keys, i) - i + 1
         IN  size(CHOOSE i \in 1..Len(rows) : \A j \in 1..Len(rows) : size(j) <= size(i))

\* C20 as claimed: the right-hand records a Join stage of a run holds are never
\* more than the records of the largest right-side group.
C20_RightSideHeldByGroup ==
    run.pc \in {"thread", "done"} =>
        \A n \in 1..Len(run.current.stages) :
            LET b == run.current.stages[n]
            IN  b.stage.op = "Join" => Len(b.right) <= LargestGroup(b.right, b.stage.keys)

\* the maximal runs of consecutive key-equal records of a stream, in stream
\* order, as tagged records
RECURSIVE RunsFrom(_, _, _)
RunsFrom(rows, keys, i) ==
    IF i > Len(rows) THEN <<>>
    ELSE <<Slice(rows, i, RunEnd(rows, keys, i))>> \o RunsFrom(rows, keys, RunEnd(rows, keys, i) + 1)

\* the groups of one side that the joiner was handed, in the order of the calls
Delivered(calls, side) ==
    SelectSeq([n \in 1..Len(calls) |-> calls[n][side]], LAMBDA g : g # <<>>)

\* C21: for any two streams, key-sorted or not, the groups of a side handed to
\* the joiner so far are the first maximal runs of that side, each once and in
\* stream order; when the loop has stopped they are all the runs of the side.
C21_EveryRunDeliveredOnce ==
    jn.pc # "idle" =>
        LET runs_a == RunsFrom(jn.rows_a, jn.keys, 1)
            runs_b == RunsFrom(jn.rows_b, jn.keys, 1)
            da == Delivered(jn.calls, "a")
            db == Delivered(jn.calls, "b")
        IN  /\ Len(da) <= Len(runs_a) /\ da = SubSeq(runs_a, 1, Len(da))
            /\ Len(db) <= Len(runs_b) /\ db = SubSeq(runs_b, 1, Len(db))
            /\ (jn.pc = "done" => da = runs_a /\ db = runs_b)

\* a finished Join over two streams that are not key-sorted, each of two runs
C21_Witness ==
    /\ jn.pc = "done" /\ jn.keys = <<"k">>
    /\ ~KeySorted(jn.rows_a, jn.keys) /\ ~KeySorted(jn.rows_b, jn.keys)
    /\ Len(Delivered(jn.calls, "a")) = 2 /\ Len(Delivered(jn.calls, "b")) = 2

NumDelivered(calls) == Len(Delivered(calls, "a")) + Len(Delivered(calls, "b"))

\* C22: the Join loop terminates.  Every pass that does not stop hands the
\* joiner at least one group that was not handed over before, so the joiner
\* is called at most groups(L) + groups(R) times; a pass stops exactly when
\* every run of both sides has been handed over; and the loop does stop.
C22_JoinTerminates ==
    /\ [](jn.pc # "idle" =>
            /\ Len(jn.calls) <= Len(RunsFrom(jn.rows_a, jn.keys, 1))
                                  + Len(RunsFrom(jn.rows_b, jn.keys, 1))
            /\ (jn.pc = "loop" =>
                   ((JoinBranch(jn) = "break")
                      <=> (NumDelivered(jn.calls)
                             = Len(RunsFrom(jn.rows_a, jn.keys, 1))
                               + Len(RunsFrom(jn.rows_b, jn.keys, 1))))))
    /\ [][jn'.pc = "loop" =>
             /\ Len(jn'.calls) = Len(jn.calls) + 1
             /\ NumDelivered(jn'.calls) > NumDelivered(jn.calls)]_vars
    /\ <>(jn.pc = "done")

\* a stopped loop that made as many calls as the two streams have runs
C22_Witness ==
    /\ jn.pc = "done"
    /\ Len(RunsFrom(jn.rows_a, jn.keys, 1)) = 2 /\ Len(RunsFrom(jn.rows_b, jn.keys, 1)) = 2
    /\ Len(jn.calls) = 4

(***************************************************************************)
(* A run of g = Graph.graph_from_iter(left).join(joiner,                   *)
(*                  Graph.graph_from_iter(right).map(mapper), ["k"])       *)
(* with the thunks lambda: iter(rows) of a caller.  store holds, for each  *)
(* named input, the values of the caller's record objects: the iterator a  *)
(* thunk returns walks these objects, and a mapper that assigns to the     *)
(* record it is given changes them.  With left = right the two graphs read *)
(* one name, each through an iterator of its own over the same objects;    *)
(* with two names the second is a copy of the data.                        *)
(***************************************************************************)
SharedStart(mapper, joiner, left, right, rows) ==
    [pc |-> "built", mapper |-> mapper, joiner |-> joiner, keys |-> <<"k">>,
     left |-> left, right |-> right,
     store |-> [n \in {left, right} |-> rows], data |-> rows,
     trace |-> <<>>, rows_b |-> <<>>, out |-> <<>>]

\* lines 126-127 of the outer run: the thunk of the left name is called; the
\* iterator it returns is not advanced yet
SharedSource(s) ==
    [s EXCEPT !.pc = "thread", !.trace = Append(@, ThunkEvent(s.left))]

\* line 117 under join_op: the right-hand graph is run to its end at once; its
\* thunk is called and its Map stage goes over the objects of its stream
SharedBind(s) ==
    CHOOSE res \in {[s EXCEPT !.pc = "drain",
                              !.trace = Append(@, ThunkEvent(s.right)),
                              !.store[s.right] = m.rows,
                              !.rows_b = m.out] :
                        m \in {MapLoop(MapStart(s.mapper, s.store[s.right]))}} : TRUE

\* line 133 of the outer run: the Join reads the left stream, whose records
\* are the objects of the left name as they are now
SharedDrain(s) ==
    [s EXCEPT !.pc = "done",
              !.out = JoinCall(s.joiner, s.keys, s.store[s.left], s.rows_b)]

SharedNames == {<<"x", "x">>, <<"x", "y">>}

InitShared ==
    /\ run \in {SharedStart(m, j, nm[1], nm[2], rows) :
                   m \in Mappers, j \in Joiners, nm \in SharedNames,
                   rows \in SeqsUpTo(RowsM, MaxLen)}
    /\ mp = Idle /\ rd = Idle /\ srt = Idle /\ jn = Idle
    /\ heap = <<>> /\ graphs = <<>> /\ built = <<>>

SharedFrame == UNCHANGED <<mp, rd, srt, jn, heap, graphs, built>>

SharedRunSource ==
    /\ run.pc = "built"
    /\ run' = SharedSource(run) /\ SharedFrame

SharedRunBind ==
    /\ run.pc = "thread"
    /\ run' = SharedBind(run) /\ SharedFrame

SharedRunDrain ==
    /\ run.pc = "drain"
    /\ run' = SharedDrain(run) /\ SharedFrame

NextShared == SharedRunSource \/ SharedRunBind \/ SharedRunDrain

SpecShared == InitShared /\ [][NextShared]_vars

\* the thunk calls of a trace for one name
ThunkCalls(trace, name) == SelectSeq(trace, LAMBDA e : e = ThunkEvent(name))

\* no thunk is called before run is entered, and a finished run has called
\* the thunk of each name once for each of the two graphs bound to it
ThunksOncePerGraph ==
    /\ (run.pc = "built" => run.trace = <<>>)
    /\ (run.pc = "done" =>
           \A n \in {run.left, run.right} :
               Len(ThunkCalls(run.trace, n))
                 = Cardinality({side \in {"left", "right"} : run[side] = n}))

\* C23 as claimed: thunks are called inside run only, once for each graph bound
\* to the name, and so a self-join on one name returns what the same join
\* returns on two separately named copies of the data.
C23_SelfJoinAsTwoCopies ==
    /\ ThunksOncePerGraph
    /\ (run.pc = "done" /\ run.left = run.right =>
           run.out = JoinCall(run.joiner, run.keys, run.data, MapCall(run.mapper, run.data)))

\* with two names the join is the join of the data with the mapped copy
TwoNamesAsTwoCopies ==
    (run.pc = "done" /\ run.left # run.right) =>
        run.out = JoinCall(run.joiner, run.keys, run.data, MapCall(run.mapper, run.data))

\* a self-join whose right-hand mapper leaves the records alone is the join of
\* two copies
SelfJoinPureAsTwoCopies ==
    (run.pc = "done" /\ run.left = run.right /\ run.mapper # "Product") =>
        run.out = JoinCall(run.joiner, run.keys, run.data, MapCall(run.mapper, run.data))

====
